---- MODULE Spec2Model ----
(***************************************************************************)
(* A model of the dat-archive container codec (jtljac/dat-archive):        *)
(* DatArchiveWriter (queue, writeArchive, appendArchive) and               *)
(* DatArchiveReader (openArchive, closeArchive, getFile, getFileRaw) over  *)
(* a filesystem that holds the source files and one container file.        *)
(*                                                                         *)
(* The container is modelled byte for byte: a 13-byte header, the payload  *)
(* bytes, and the table records with the field widths the code writes.     *)
(* zlib is an external library; its deflate/inflate pair and crc32 are     *)
(* represented by a small stream format with the same call protocol        *)
(* (a checked two-byte header, a token body, an end marker and a check     *)
(* byte) and by a running checksum that detects every single-byte change.  *)
(* CHUNKSIZE is scaled down from 262144 so that payloads longer than one   *)
(* chunk occur within the bounds.                                          *)
(***************************************************************************)
EXTENDS Integers, Sequences, FiniteSets, TLC

(***************************************************************************)
(* Bounds of the model                                                     *)
(***************************************************************************)
NPaths == 2
NNames == 2
MaxOps == 5

(***************************************************************************)
(* Program constants                                                       *)
(***************************************************************************)
\* dat-archive.h:16 (scaled: the code's value is 262144)
CHUNKSIZE == 2
\* dat-archive.h:14
DATFILEVERSION == 1
\* dat-archive.h:11  {'\xB1', '\x44', '\x41', '\x54'}
DATFILESIGNATURE == <<177, 68, 65, 84>>
\* dat-archive.cpp:277-284: 4 signature bytes + 1 version byte + 8 offset bytes
HeaderSize == 13
\* enum class CompressionMethod : uint8_t { NONE, ZLIB }
NONE == 0
ZLIB == 1

\* the content of a path where no file exists (no byte is negative)
NoFile == <<-1>>

Paths == 1..NPaths
Names == {<<64 + i>> : i \in 1..NNames}
Contents == {<<>>, <<1>>, <<0, 1>>, <<1, 0, 1>>}

(***************************************************************************)
(* Byte-level helpers                                                      *)
(***************************************************************************)
\* Values of 2^24 and above are never offsets inside a modelled file; the
\* decoder maps all of them to this one value.
Huge == 256 * 65536

Min(a, b) == IF a < b THEN a ELSE b

Zeros(n) == [i \in 1..n |-> 0]

\* the native (little-endian) image of an unsigned integer of w bytes
ToBytes(n, w) ==
    [i \in 1..w |-> CASE i = 1 -> n % 256
                      [] i = 2 -> (n \div 256) % 256
                      [] i = 3 -> (n \div 65536) % 256
                      [] OTHER -> 0]

FromBytes(bs) ==
    IF \E i \in 4..Len(bs) : bs[i] # 0
    THEN Huge
    ELSE (IF Len(bs) >= 1 THEN bs[1] ELSE 0)
         + (IF Len(bs) >= 2 THEN 256 * bs[2] ELSE 0)
         + (IF Len(bs) >= 3 THEN 65536 * bs[3] ELSE 0)

\* istream::read of n bytes at 0-based position pos: the bytes actually there
ReadAt(file, pos, n) ==
    IF pos >= Len(file) \/ n <= 0 THEN <<>>
    ELSE SubSeq(file, pos + 1, Min(pos + n, Len(file)))

\* a field read into a zero-initialised object: short reads leave the rest 0
ReadField(file, pos, n) ==
    LET got == ReadAt(file, pos, n)
    IN  got \o Zeros(n - Len(got))

\* ostream::write of bytes at 0-based position pos (extends the file)
WriteAt(file, pos, bytes) ==
    LET pre  == IF pos <= Len(file) THEN SubSeq(file, 1, pos)
                ELSE file \o Zeros(pos - Len(file))
        post == IF pos + Len(bytes) < Len(file)
                THEN SubSeq(file, pos + Len(bytes) + 1, Len(file))
                ELSE <<>>
    IN  pre \o bytes \o post

(***************************************************************************)
(* zlib stand-ins                                                          *)
(***************************************************************************)
\* crc32(crc, buf, len): running checksum; Crc32(0, <<>>) = 0 as in zlib
RECURSIVE Crc32(_, _)
Crc32(crc, bytes) ==
    IF bytes = <<>> THEN crc
    ELSE Crc32((crc * 3 + Head(bytes) + 1) % 257, Tail(bytes))

RECURSIVE SumSeq(_)
SumSeq(s) == IF s = <<>> THEN 0 ELSE Head(s) + SumSeq(Tail(s))

\* the stream's trailing check value over the uncompressed bytes
Adler(out) == (1 + SumSeq(out) + Len(out)) % 251

\* the stream header deflate writes (CMF, FLG) and the end-of-data token
ZHeader == <<120, 156>>
ZEnd == <<0>>

(***************************************************************************)
(* TableEntry and the table record codec                                   *)
(***************************************************************************)
\* TableEntry(name, cMethod, flags) with the default member initialisers;
\* crc32 is a public field the caller may have set before queueing
NewEntry(name, cMethod, crc) ==
    [name |-> name, compressionMethod |-> cMethod, fileFlags |-> 0,
     crc32 |-> crc, originalSize |-> 0, dataStart |-> 0, dataEnd |-> 0]

\* TableEntry::sizeInArchive (uint64 subtraction; a negative difference
\* stands for the wrapped value)
sizeInArchive(entry) ==
    IF entry.dataEnd >= entry.dataStart THEN entry.dataEnd - entry.dataStart
    ELSE Huge

\* DatArchiveWriter::writeTableEntry: the bytes of one record
writeTableEntry(entry) ==
    ToBytes(Len(entry.name), 2) \o entry.name
        \o <<entry.compressionMethod>> \o <<entry.fileFlags % 2>>
        \o ToBytes(entry.crc32, 4) \o ToBytes(entry.originalSize, 8)
        \o ToBytes(entry.dataStart, 8) \o ToBytes(entry.dataEnd, 8)

\* writeTable(archiveFile, entries): the records of a vector, in order
RECURSIVE writeTableVec(_)
writeTableVec(entries) ==
    IF entries = <<>> THEN <<>>
    ELSE writeTableEntry(Head(entries)) \o writeTableVec(Tail(entries))

\* one record parsed at 0-based position pos by the body of loadTable's loop
ParseEntry(file, pos, nameLength) ==
    LET p == pos + 2 + nameLength
    IN  [name |-> ReadField(file, pos + 2, nameLength),
         compressionMethod |-> ReadField(file, p, 1)[1],
         fileFlags |-> ReadField(file, p + 1, 1)[1],
         crc32 |-> FromBytes(ReadField(file, p + 2, 4)),
         originalSize |-> FromBytes(ReadField(file, p + 6, 8)),
         dataStart |-> FromBytes(ReadField(file, p + 14, 8)),
         dataEnd |-> FromBytes(ReadField(file, p + 22, 8))]

\* loadTable's while loop: the records from pos to the end of the file, in
\* file order; the loop ends when the 2-byte length cannot be read
RECURSIVE ParseTable(_, _)
ParseTable(file, pos) ==
    IF pos + 2 > Len(file) THEN <<>>
    ELSE LET nameLength == FromBytes(ReadAt(file, pos, 2))
         IN  <<ParseEntry(file, pos, nameLength)>>
                 \o ParseTable(file, pos + 2 + nameLength + 30)

\* entries.emplace(entry.name, entry) for each record in turn: the first
\* record of a name stays
RECURSIVE EmplaceAll(_, _)
EmplaceAll(entries, recs) ==
    IF recs = <<>> THEN entries
    ELSE LET e == Head(recs)
         IN  EmplaceAll(IF e.name \in DOMAIN entries THEN entries
                        ELSE [n \in DOMAIN entries \cup {e.name} |->
                                 IF n = e.name THEN e ELSE entries[n]],
                        Tail(recs))

(***************************************************************************)
(* Writer: payload paths                                                   *)
(***************************************************************************)
\* writeFileToArchive's loop from file position fpos: file.read of CHUNKSIZE
\* bytes sets eof when fewer are left; each chunk is added to the CRC and
\* written. Result: the bytes written and the CRC.
RECURSIVE NoneLoop(_, _, _, _)
NoneLoop(content, fpos, crc, written) ==
    LET buffer == ReadAt(content, fpos, CHUNKSIZE)
        have   == Len(buffer)
        crc2   == Crc32(crc, buffer)
        out    == written \o buffer
    IN  IF have < CHUNKSIZE
        THEN [bytes |-> out, crc32 |-> crc2]
        ELSE NoneLoop(content, fpos + have, crc2, out)

\* writeFileToArchive: the CRC starts from crc32(0L, Z_NULL, 0)
writeFileToArchive(content, entry) == NoneLoop(content, 0, 0, <<>>)

\* deflate(&strm, flush) with CHUNKSIZE bytes of output space: the encoder
\* takes all of the input, queues its output (the header first, the end
\* token and the check value on Z_FINISH) and hands over what fits
DeflateCall(strm, in, finish) ==
    LET total   == strm.total \o in
        tokens  == [i \in 1..Len(in) |-> in[i] + 1]
        queued  == strm.pending
                     \o (IF strm.started THEN <<>> ELSE ZHeader)
                     \o tokens
                     \o (IF finish /\ ~strm.finished
                         THEN ZEnd \o <<Adler(total)>> ELSE <<>>)
        have    == Min(CHUNKSIZE, Len(queued))
    IN  [out  |-> SubSeq(queued, 1, have),
         strm |-> [pending  |-> SubSeq(queued, have + 1, Len(queued)),
                   started  |-> TRUE,
                   finished |-> strm.finished \/ finish,
                   total    |-> total]]

\* the inner do-while: deflate until the output buffer is not full; every
\* output chunk is added to the CRC and written. DeflateHave is the part of
\* the body after the deflate call, r what the call gave.
RECURSIVE DeflateInner(_, _, _, _, _, _)
RECURSIVE DeflateHave(_, _, _, _, _)
DeflateInner(strm, in, finish, crc, written, fail) ==
    DeflateHave(DeflateCall(strm, in, finish), finish, crc, written, fail)

DeflateHave(r, finish, crc, written, fail) ==
    IF fail
    THEN \* archiveFile.fail(): "Failed to write", return
         [strm |-> r.strm, crc32 |-> Crc32(crc, r.out), bytes |-> <<>>,
          abort |-> TRUE]
    ELSE IF Len(r.out) = CHUNKSIZE
    THEN DeflateInner(r.strm, <<>>, finish, Crc32(crc, r.out),
                      written \o r.out, fail)
    ELSE [strm |-> r.strm, crc32 |-> Crc32(crc, r.out),
          bytes |-> written \o r.out, abort |-> FALSE]

\* the outer do-while: read a chunk, Z_FINISH once the read hit the end.
\* DeflateChunk is the body for the chunk read, DeflateWhile the loop test
\* on what the inner loop left.
RECURSIVE DeflateOuter(_, _, _, _, _, _)
RECURSIVE DeflateChunk(_, _, _, _, _, _, _)
RECURSIVE DeflateWhile(_, _, _, _, _)
DeflateOuter(content, fpos, strm, crc, written, fail) ==
    DeflateChunk(content, fpos, strm, crc, written, fail,
                 ReadAt(content, fpos, CHUNKSIZE))

DeflateChunk(content, fpos, strm, crc, written, fail, in) ==
    DeflateWhile(content, fpos + Len(in), Len(in) < CHUNKSIZE, fail,
                 DeflateInner(strm, in, Len(in) < CHUNKSIZE, crc, written,
                              fail))

DeflateWhile(content, fpos, finish, fail, r) ==
    IF finish \/ r.abort THEN [bytes |-> r.bytes, crc32 |-> r.crc32]
    ELSE DeflateOuter(content, fpos, r.strm, r.crc32, r.bytes, fail)

\* zlibCompressFileToArchive: the CRC continues from the value the entry
\* holds; fail: the archive stream is in a failed state
zlibCompressFileToArchive(content, entry, fail) ==
    DeflateOuter(content, 0,
                 [pending |-> <<>>, started |-> FALSE, finished |-> FALSE,
                  total |-> <<>>],
                 entry.crc32, <<>>, fail)

(***************************************************************************)
(* Reader: extraction                                                      *)
(***************************************************************************)
\* the result of an extraction: kind "ret" (returned ret, the buffer holds
\* data), "hang" (the loop never exits) or "undef" (the call ran into
\* undefined behaviour: a read past the end of a heap buffer); fail is the
\* stream's failbit afterwards and bad the Reader's badFlag
Outcome(kind, ret, data, fail, bad) ==
    [kind |-> kind, ret |-> ret, data |-> data, fail |-> fail, bad |-> bad]

\* bytes over a buffer's old content
Overlay(got, buffer) == got \o SubSeq(buffer, Len(got) + 1, Len(buffer))

\* extractFile(entry, buffer, validateCrc) on the open archive; a failed
\* stream neither seeks nor reads and its tellg() is -1
extractFile(file, fail, bad, entry, buffer, validateCrc) ==
    LET size  == sizeInArchive(entry)
        got   == IF fail THEN <<>> ELSE ReadAt(file, entry.dataStart, size)
        fail2 == fail \/ Len(got) < size
        buf2  == Overlay(got, buffer)
        calculatedCrc == Crc32(0, SubSeq(buf2, 1, size))
    IN  IF size > Len(buffer)
        THEN Outcome("undef", 0, <<>>, fail, bad)
        ELSE IF validateCrc /\ calculatedCrc # entry.crc32
        THEN Outcome("ret", 0, buf2, fail2, bad)
        ELSE Outcome("ret", IF fail2 THEN Huge ELSE size, buf2, fail2, bad)

\* inflate(&strm, Z_NO_FLUSH): consumes input while it can; cap is the
\* output space in all (avail_out started at originalSize)
RECURSIVE InflateRun(_, _, _, _)
InflateRun(strm, in, cap, progressed) ==
    LET stall == [rc |-> IF progressed THEN "Z_OK" ELSE "Z_BUF_ERROR",
                  strm |-> strm]
    IN  CASE strm.mode = "DONE" -> [rc |-> "Z_STREAM_END", strm |-> strm]
          [] strm.mode = "BAD"  -> [rc |-> "Z_DATA_ERROR", strm |-> strm]
          [] strm.mode = "DICT" -> [rc |-> "Z_NEED_DICT", strm |-> strm]
          [] strm.mode \in {"HEAD", "FLAGS", "BODY", "CHECK"} /\ in = <<>> -> stall
          [] strm.mode = "HEAD" /\ in # <<>> ->
                InflateRun([strm EXCEPT !.mode = "FLAGS", !.cmf = Head(in)],
                           Tail(in), cap, TRUE)
          [] strm.mode = "FLAGS" /\ in # <<>> ->
                LET flg == Head(in)
                    ok  == /\ (strm.cmf * 256 + flg) % 31 = 0
                           /\ strm.cmf % 16 = 8
                           /\ strm.cmf \div 16 <= 7
                    m   == IF ~ok THEN "BAD"
                           ELSE IF (flg \div 32) % 2 = 1 THEN "DICT"
                           ELSE "BODY"
                IN  InflateRun([strm EXCEPT !.mode = m], Tail(in), cap, TRUE)
          [] strm.mode = "BODY" /\ in # <<>> ->
                LET t == Head(in)
                IN  IF t = ZEnd[1]
                    THEN InflateRun([strm EXCEPT !.mode = "CHECK"],
                                    Tail(in), cap, TRUE)
                    ELSE IF t = 255
                    THEN InflateRun([strm EXCEPT !.mode = "BAD"],
                                    Tail(in), cap, TRUE)
                    ELSE IF Len(strm.out) >= cap THEN stall
                    ELSE InflateRun([strm EXCEPT !.out = @ \o <<t - 1>>],
                                    Tail(in), cap, TRUE)
          [] strm.mode = "CHECK" /\ in # <<>> ->
                InflateRun([strm EXCEPT !.mode =
                                IF Head(in) = Adler(strm.out) THEN "DONE"
                                ELSE "BAD"],
                           Tail(in), cap, TRUE)

\* inflate with next_out == Z_NULL reports Z_STREAM_ERROR and does nothing
Inflate(strm, in, cap, nullOut) ==
    IF nullOut THEN [rc |-> "Z_STREAM_ERROR", strm |-> strm]
    ELSE InflateRun(strm, in, cap, FALSE)

\* availableBytes of one pass: tellg() of a failed stream is -1
AvailableBytes(entry, pos, fail) ==
    IF fail
    THEN (IF CHUNKSIZE - 1 < entry.dataEnd THEN CHUNKSIZE
          ELSE entry.dataEnd + 1)
    ELSE IF pos + CHUNKSIZE < entry.dataEnd THEN CHUNKSIZE
    ELSE IF entry.dataEnd >= pos THEN entry.dataEnd - pos
    ELSE Huge

\* one pass of zlibExtractFile's do-while and the passes after it. pos is
\* the stream position, in the chunk buffer (it keeps what earlier reads
\* left in it), strm the inflate state. ExtractRead is the pass from
\* archive.read on (got: the bytes read), ExtractResult the tests on what
\* inflate gave (r), with the CRC (crc2) and the buffers as the pass left
\* them; same: the read changed nothing.
RECURSIVE ExtractLoop(_, _, _, _, _, _)
RECURSIVE ExtractRead(_, _, _, _, _, _, _, _)
RECURSIVE ExtractResult(_, _, _, _, _, _, _, _)
ExtractLoop(cx, pos, fail, in, strm, calculatedCrc) ==
    IF AvailableBytes(cx.entry, pos, fail) > CHUNKSIZE
    THEN Outcome("undef", 0, <<>>, fail, cx.bad)
    ELSE ExtractRead(cx, pos, fail, in, strm, calculatedCrc,
                     AvailableBytes(cx.entry, pos, fail),
                     IF fail THEN <<>>
                     ELSE ReadAt(cx.file, pos,
                                 AvailableBytes(cx.entry, pos, fail)))

ExtractRead(cx, pos, fail, in, strm, calculatedCrc, availableBytes, got) ==
    LET fail2 == fail \/ Len(got) < availableBytes
        in2   == Overlay(got, in)
        fed   == SubSeq(in2, 1, availableBytes)
    IN  ExtractResult(cx, pos + Len(got),
                      Len(got) = 0 /\ fail2 = fail /\ in2 = in,
                      fail2, in2, strm, Crc32(calculatedCrc, fed),
                      Inflate(strm, fed, Len(cx.buffer), cx.nullOut))

ExtractResult(cx, pos2, same, fail2, in2, strm, crc2, r) ==
    LET data == Overlay(r.strm.out, cx.buffer)
    IN  IF r.rc \in {"Z_NEED_DICT", "Z_DATA_ERROR", "Z_MEM_ERROR"}
        THEN Outcome("ret", 0, data, fail2, FALSE)
        ELSE IF r.rc = "Z_STREAM_END"
        THEN (IF cx.validateCrc /\ crc2 # cx.entry.crc32
              THEN Outcome("ret", 0, data, fail2, cx.bad)
              ELSE Outcome("ret", cx.entry.originalSize, data, fail2,
                           cx.bad))
        ELSE IF same /\ r.strm = strm
        THEN Outcome("hang", 0, data, fail2, cx.bad)
        ELSE ExtractLoop(cx, pos2, fail2, in2, r.strm, crc2)

\* zlibExtractFile(entry, buffer, validateCrc); fill is the indeterminate
\* content of the freshly allocated chunk buffer
zlibExtractFile(file, fail, bad, entry, buffer, nullOut, validateCrc, fill) ==
    ExtractLoop([file |-> file, entry |-> entry, buffer |-> buffer,
                 nullOut |-> nullOut, validateCrc |-> validateCrc,
                 bad |-> bad],
                entry.dataStart, fail, [i \in 1..CHUNKSIZE |-> fill],
                [mode |-> "HEAD", cmf |-> 0, out |-> <<>>], 0)

\* getFileFromEntry: the switch on the compression method
getFileFromEntry(file, fail, bad, entry, buffer, nullOut, fill) ==
    CASE entry.compressionMethod = NONE ->
            extractFile(file, fail, bad, entry, buffer, TRUE)
      [] entry.compressionMethod = ZLIB ->
            zlibExtractFile(file, fail, bad, entry, buffer, nullOut, TRUE, fill)
      [] OTHER -> Outcome("ret", 0, buffer, fail, bad)

(***************************************************************************)
(* Reader: the object                                                      *)
(***************************************************************************)
\* a DatArchiveReader before its constructor's openArchive: the member
\* initialisers. strmOpen / strmFail are the ifstream's is_open() / fail().
NewReader ==
    [alive |-> TRUE, openFlag |-> FALSE, badFlag |-> FALSE, entries |-> <<>>,
     tableOffset |-> 0, strmOpen |-> FALSE, strmFail |-> FALSE]

NoReader == [NewReader EXCEPT !.alive = FALSE]

validateArchive(signature, version) ==
    signature = DATFILESIGNATURE /\ version = DATFILEVERSION

\* loadTable on the open stream: [ret, entries, strmFail]
loadTable(r, file, offsetBytes) ==
    LET seekFails == offsetBytes[8] >= 128
        off       == FromBytes(offsetBytes)
    IN  IF seekFails \/ off = 0
        THEN [ret |-> FALSE, entries |-> r.entries, strmFail |-> seekFails]
        ELSE [ret |-> TRUE,
              entries |-> EmplaceAll(r.entries, ParseTable(file, off)),
              strmFail |-> FALSE]

\* openArchive's "return loadTable()": the Reader with what loadTable (t)
\* left in entries and in the stream, and its value
Loaded(r, t) ==
    [r |-> [r EXCEPT !.entries = t.entries, !.strmFail = t.strmFail],
     ret |-> t.ret]

\* openArchive(path) with file the content at path (NoFile: nothing there):
\* the Reader afterwards and the value returned
openArchive(r, file) ==
    LET r0 == [r EXCEPT !.openFlag = FALSE, !.badFlag = FALSE]
    IN  IF file = NoFile THEN [r |-> r0, ret |-> FALSE]
        ELSE IF r.strmOpen
        THEN \* ifstream::open on an open stream fails and sets failbit
             [r |-> [r0 EXCEPT !.strmFail = TRUE], ret |-> FALSE]
        ELSE LET signature   == ReadField(file, 0, 4)
                 version     == ReadField(file, 4, 1)[1]
                 offsetBytes == ReadField(file, 5, 8)
                 r1 == [r0 EXCEPT !.strmOpen = TRUE, !.strmFail = FALSE,
                                  !.openFlag = TRUE]
             IN  IF ~validateArchive(signature, version)
                 THEN [r |-> [r1 EXCEPT !.badFlag = TRUE], ret |-> FALSE]
                 ELSE Loaded([r1 EXCEPT !.tableOffset = FromBytes(offsetBytes)],
                             loadTable(r1, file, offsetBytes))

\* closeArchive: the Reader afterwards and the value returned; close() on a
\* stream that is not open sets failbit
closeArchive(r) ==
    IF r.openFlag THEN [r |-> r, ret |-> FALSE]
    ELSE [r |-> [r EXCEPT !.strmOpen = FALSE,
                          !.strmFail = r.strmFail \/ ~r.strmOpen,
                          !.openFlag = FALSE],
          ret |-> TRUE]

size(r) == Cardinality(DOMAIN r.entries)

contains(r, name) == name \in DOMAIN r.entries

\* operator< of std::string: bytewise lexicographic
RECURSIVE LexLess(_, _)
LexLess(a, b) ==
    IF b = <<>> THEN FALSE
    ELSE IF a = <<>> THEN TRUE
    ELSE IF Head(a) # Head(b) THEN Head(a) < Head(b)
    ELSE LexLess(Tail(a), Tail(b))

\* the keys of a std::map<std::string, _> in iteration order
RECURSIVE SortedKeys(_)
SortedKeys(S) ==
    IF S = {} THEN <<>>
    ELSE LET m == CHOOSE x \in S : \A y \in S \ {x} : LexLess(x, y)
         IN  <<m>> \o SortedKeys(S \ {m})

listFiles(r) == SortedKeys(DOMAIN r.entries)

getTable(r) ==
    LET keys == SortedKeys(DOMAIN r.entries)
    IN  [i \in 1..Len(keys) |-> r.entries[keys[i]]]

getTableOffset(r) == r.tableOffset

isOpen(r) == r.openFlag

isBad(r) == r.badFlag

\* what a call of getFile / getFileRaw leaves: kind "ret" with the value
\* returned, "hang" or "undef", and the Reader afterwards
CallResult(kind, value, r) == [kind |-> kind, value |-> value, r |-> r]

\* the Reader after an extraction with outcome o
Extracted(r, o) == [r EXCEPT !.strmFail = o.fail, !.badFlag = o.bad]

\* getFile after getFileFromEntry: the data when a size came back, else an
\* empty vector
getFileResult(r, o) ==
    IF o.kind # "ret" THEN CallResult(o.kind, <<>>, Extracted(r, o))
    ELSE IF o.ret # 0 THEN CallResult("ret", o.data, Extracted(r, o))
    ELSE CallResult("ret", <<>>, Extracted(r, o))

\* getFileRaw after getFileFromEntry: the size that came back
getFileRawResult(r, o) == CallResult(o.kind, o.ret, Extracted(r, o))

\* getFile(name). nullData: std::vector<char>(0).data() is a null pointer.
getFile(r, file, name, nullData, fill) ==
    IF ~r.openFlag \/ r.badFlag THEN CallResult("ret", <<>>, r)
    ELSE IF ~contains(r, name) THEN CallResult("ret", <<>>, r)
    ELSE LET entry == r.entries[name]
         IN  IF entry.originalSize >= Huge
             THEN CallResult("undef", <<>>, r)
             ELSE getFileResult(r,
                      getFileFromEntry(file, r.strmFail, r.badFlag, entry,
                          Zeros(entry.originalSize),
                          nullData /\ entry.originalSize = 0, fill))

\* getFileRaw(name, buffer) with a caller's buffer of originalSize bytes
\* holding fill: the value is the number returned
getFileRaw(r, file, name, fill) ==
    IF ~r.openFlag \/ r.badFlag THEN CallResult("ret", 0, r)
    ELSE IF ~contains(r, name) THEN CallResult("ret", 0, r)
    ELSE LET entry == r.entries[name]
         IN  IF entry.originalSize >= Huge
             THEN CallResult("undef", 0, r)
             ELSE getFileRawResult(r,
                      getFileFromEntry(file, r.strmFail, r.badFlag, entry,
                          [i \in 1..entry.originalSize |-> fill], FALSE, fill))

(***************************************************************************)
(* Writer                                                                  *)
(***************************************************************************)
\* writeHeader: signature, version and the 8-byte placeholder
writeHeader ==
    DATFILESIGNATURE \o <<DATFILEVERSION>> \o Zeros(8)

\* the archive stream of a write: the file's bytes, the put position and
\* fail(); tellp() of a failed stream is -1
Tellp(st) == IF st.fail THEN Huge ELSE st.pos

Put(st, bytes) ==
    IF st.fail THEN st
    ELSE [st EXCEPT !.file = WriteAt(st.file, st.pos, bytes),
                    !.pos = st.pos + Len(bytes)]

\* a write that takes dataEnd before the payload is written
StoredEndFirst(e1, w, st) ==
    [entry |-> [e1 EXCEPT !.crc32 = w.crc32, !.dataEnd = Tellp(st)],
     st |-> Put(st, w.bytes)]

\* the entry and the stream once the payload w of a queued file is written
Stored(e1, w, st) ==
    [entry |-> [e1 EXCEPT !.crc32 = w.crc32,
                          !.dataEnd = Tellp(Put(st, w.bytes))],
     st |-> Put(st, w.bytes)]

\* the switch of writeFiles on the compression method: the payload bytes and
\* the CRC
Payload(content, e1, fail) ==
    IF e1.compressionMethod = NONE
    THEN writeFileToArchive(content, e1)
    ELSE IF e1.compressionMethod = ZLIB
    THEN zlibCompressFileToArchive(content, e1, fail)
    ELSE [bytes |-> <<>>, crc32 |-> e1.crc32]

\* the body of writeFiles' loop for one queued path
WriteOne(fs, path, entry, st) ==
    IF fs[path] = NoFile
    THEN \* theFile.fail(): "Failed to open", continue
         [entry |-> entry, st |-> st]
    ELSE LET e1 == [entry EXCEPT !.dataStart = Tellp(st),
                                 !.originalSize = Len(fs[path])]
         IN  Stored(e1, Payload(fs[path], e1, st.fail), st)

\* writeFiles: the queue in std::map order (ascending path) from path p on;
\* WriteRest goes on after the body of the loop left w for path p
RECURSIVE writeFiles(_, _, _, _)
RECURSIVE WriteRest(_, _, _, _)
writeFiles(fs, queue, p, st) ==
    IF p > NPaths THEN [queue |-> queue, st |-> st]
    ELSE IF p \notin DOMAIN queue THEN writeFiles(fs, queue, p + 1, st)
    ELSE WriteRest(fs, queue, p, WriteOne(fs, p, queue[p], st))

WriteRest(fs, queue, p, w) ==
    writeFiles(fs, [queue EXCEPT ![p] = w.entry], p + 1, w.st)

\* writeTableLocation: the put position goes into header bytes 5..12
writeTableLocation(st) ==
    IF st.fail THEN st
    ELSE [st EXCEPT !.file = WriteAt(st.file, 5, ToBytes(st.pos, 8))]

\* the queue's entries in std::map order
RECURSIVE QueueVec(_, _)
QueueVec(queue, p) ==
    IF p > NPaths THEN <<>>
    ELSE (IF p \in DOMAIN queue THEN <<queue[p]>> ELSE <<>>)
             \o QueueVec(queue, p + 1)

\* writeTable(archiveFile): a record per queued entry
writeTable(queue, st) == Put(st, writeTableVec(QueueVec(queue, 1)))

\* writeTableLocation and writeTable after writeFiles left w: [queue, file]
TableWritten(w) ==
    [queue |-> w.queue,
     file |-> writeTable(w.queue, writeTableLocation(w.st)).file]

\* writeArchive past the exists() test: [queue, file]
writeArchive(fs, queue) ==
    TableWritten(writeFiles(fs, queue, 1,
                            Put([file |-> <<>>, pos |-> 0, fail |-> FALSE],
                                writeHeader)))

\* the results std::sort by dataStart may give for the vector vec: every
\* ordering of the elements at the index set S that is ascending
RECURSIVE SortedOrders(_, _)
SortedOrders(vec, S) ==
    IF S = {} THEN {<<>>}
    ELSE UNION {
           {<<vec[i]>> \o t : t \in SortedOrders(vec, S \ {i})} :
             i \in {j \in S : \A k \in S : vec[j].dataStart <= vec[k].dataStart}}

\* the filter loop of appendArchive: queued entries whose name is in the table
FilterQueue(queue, entries) ==
    LET keep == {p \in DOMAIN queue :
                    \A i \in 1..Len(entries) : entries[i].name # queue[p].name}
    IN  [p \in keep |-> queue[p]]

\* the end of appendArchive after writeFiles left w: the table location, the
\* old table, the table of the queue
Appended(w, sorted) ==
    [ret |-> TRUE, queue |-> w.queue,
     file |-> writeTable(w.queue,
                         Put(writeTableLocation(w.st),
                             writeTableVec(sorted))).file]

\* appendArchive with the Reader it opened on the destination
AppendTo(fs, queue, file, sorted, archive) ==
    IF isBad(archive) \/ ~isOpen(archive)
    THEN [ret |-> FALSE, queue |-> queue, file |-> file]
    ELSE Appended(writeFiles(fs, FilterQueue(queue, sorted), 1,
                             [file |-> file, pos |-> getTableOffset(archive),
                              fail |-> getTableOffset(archive) >= Huge]),
                  sorted)

\* appendArchive on an existing file, with the sorted old table chosen:
\* [ret, queue, file]
appendArchive(fs, queue, file, sorted) ==
    AppendTo(fs, queue, file, sorted, openArchive(NewReader, file).r)

\* the orders the old table may be sorted into
AppendOrders(file) ==
    LET table == getTable(openArchive(NewReader, file).r)
    IN  SortedOrders(table, 1..Len(table))

(***************************************************************************)
(* State                                                                   *)
(***************************************************************************)
VARIABLES
    files,        \* the source files: path -> content, or NoFile
    arch,         \* the container file at the destination path, or NoFile
    fileEntries,  \* DatArchiveWriter::fileEntries: path -> TableEntry
    reader,       \* the DatArchiveReader object (alive: constructed)
    damage,       \* what was changed in the container since it was written
    status,       \* "running"; "hung" / "undef" once a call never returns
    last,         \* the last step: [op, ret, arg]
    ops           \* number of calls made

vars == <<files, arch, fileEntries, reader, damage, status, last, ops>>

\* crc32 values a caller may leave in the TableEntry it queues
InitCrcs == {0, 5}
\* indeterminate bytes of an unwritten buffer
FillBytes == {0, 255}
\* the values a changed container byte takes
CorruptBytes == {0, 1, 2, 32, 255}

Call(op, ret, arg) == [op |-> op, ret |-> ret, arg |-> arg]

\* a new Writer, no Reader, the source files in place, no container yet
Init ==
    /\ files \in [Paths -> Contents]
    /\ arch = NoFile
    /\ fileEntries = <<>>
    /\ reader = NoReader
    /\ damage = "none"
    /\ status = "running"
    /\ last = Call("none", FALSE, <<>>)
    /\ ops = 0

Running == status = "running" /\ ops < MaxOps

\* no Reader holds the container open (the library has no locking; writes
\* under an open Reader are outside its contract)
Unobserved == ~reader.strmOpen

(***************************************************************************)
(* Writer calls                                                            *)
(***************************************************************************)
\* a queueFile without the exists() test
queueFileUnchecked(fs, queue, path, entry) ==
    IF path \in DOMAIN queue THEN [ret |-> FALSE, queue |-> queue]
    ELSE [ret |-> TRUE,
          queue |-> [p \in DOMAIN queue \cup {path} |->
                        IF p = path THEN entry ELSE queue[p]]]

\* queueFile(path, entry): [ret, queue]
queueFile(fs, queue, path, entry) ==
    IF path \in DOMAIN queue THEN [ret |-> FALSE, queue |-> queue]
    ELSE IF fs[path] = NoFile THEN [ret |-> FALSE, queue |-> queue]
    ELSE [ret |-> TRUE,
          queue |-> [p \in DOMAIN queue \cup {path} |->
                        IF p = path THEN entry ELSE queue[p]]]

\* removeFile(path): [ret, queue]
removeFile(queue, path) ==
    [ret |-> path \in DOMAIN queue,
     queue |-> [p \in DOMAIN queue \ {path} |-> queue[p]]]

QueueFile(path, name, cMethod, crc) ==
    /\ Running
    /\ LET q == queueFile(files, fileEntries, path, NewEntry(name, cMethod, crc))
       IN  /\ fileEntries' = q.queue
           /\ last' = Call("queueFile", q.ret,
                           <<path, NewEntry(name, cMethod, crc)>>)
    /\ ops' = ops + 1
    /\ UNCHANGED <<files, arch, reader, damage, status>>

RemoveFile(path) ==
    /\ Running
    /\ LET q == removeFile(fileEntries, path)
       IN  /\ fileEntries' = q.queue
           /\ last' = Call("removeFile", q.ret, path)
    /\ ops' = ops + 1
    /\ UNCHANGED <<files, arch, reader, damage, status>>

Clear ==
    /\ Running
    /\ fileEntries # <<>>
    /\ fileEntries' = <<>>
    /\ last' = Call("clear", TRUE, <<>>)
    /\ ops' = ops + 1
    /\ UNCHANGED <<files, arch, reader, damage, status>>

\* the destination and the queue as a write (w) left them
Wrote(w) == arch' = w.file /\ fileEntries' = w.queue

\* writeArchive(destination, overwrite). removeFile(destination) in the
\* overwrite branch is the Writer's own removeFile: the destination is no
\* queued source path here, so it removes nothing.
WriteArchive(overwrite) ==
    /\ Running
    /\ Unobserved
    /\ IF arch # NoFile /\ ~overwrite
       THEN /\ last' = Call("writeArchive", FALSE, overwrite)
            /\ UNCHANGED <<arch, fileEntries, damage>>
       ELSE /\ Wrote(writeArchive(files, fileEntries))
            /\ damage' = "none"
            /\ last' = Call("writeArchive", TRUE, overwrite)
    /\ ops' = ops + 1
    /\ UNCHANGED <<files, reader, status>>

AppendReturns(a) ==
    /\ Wrote(a)
    /\ last' = Call("appendArchive", a.ret, <<>>)

AppendArchive ==
    /\ Running
    /\ Unobserved
    /\ IF arch = NoFile
       THEN /\ last' = Call("appendArchive", FALSE, <<>>)
            /\ UNCHANGED <<arch, fileEntries>>
       ELSE \E sorted \in AppendOrders(arch) :
              AppendReturns(appendArchive(files, fileEntries, arch, sorted))
    /\ ops' = ops + 1
    /\ UNCHANGED <<files, reader, damage, status>>

(***************************************************************************)
(* Reader calls                                                            *)
(***************************************************************************)
\* the Reader and the value returned as openArchive (o) left them
OpenReturns(op, o) == reader' = o.r /\ last' = Call(op, o.ret, <<>>)

\* the Reader after getFile / getFileRaw (g), or the call that never returns
ExtractReturns(op, g, name) ==
    /\ reader' = g.r
    /\ status' = IF g.kind = "ret" THEN "running"
                 ELSE IF g.kind = "hang" THEN "hung" ELSE "undef"
    /\ last' = Call(op, g.value, name)

\* DatArchiveReader(archiveFilePath): the constructor calls openArchive
Construct ==
    /\ Running
    /\ ~reader.alive
    /\ OpenReturns("construct", openArchive(NewReader, arch))
    /\ ops' = ops + 1
    /\ UNCHANGED <<files, arch, fileEntries, damage, status>>

OpenArchive ==
    /\ Running
    /\ reader.alive
    /\ OpenReturns("openArchive", openArchive(reader, arch))
    /\ ops' = ops + 1
    /\ UNCHANGED <<files, arch, fileEntries, damage, status>>

CloseArchive ==
    /\ Running
    /\ reader.alive
    /\ LET c == closeArchive(reader)
       IN  /\ reader' = c.r
           /\ last' = Call("closeArchive", c.ret, reader.openFlag)
    /\ ops' = ops + 1
    /\ UNCHANGED <<files, arch, fileEntries, damage, status>>

\* the Reader goes out of scope: its ifstream closes
Destroy ==
    /\ Running
    /\ reader.alive
    /\ reader' = NoReader
    /\ last' = Call("destroy", TRUE, <<>>)
    /\ ops' = ops + 1
    /\ UNCHANGED <<files, arch, fileEntries, damage, status>>

GetFile(name) ==
    /\ Running
    /\ reader.alive
    /\ \E nullData \in BOOLEAN, fill \in FillBytes :
         ExtractReturns("getFile",
                        getFile(reader, arch, name, nullData, fill), name)
    /\ ops' = ops + 1
    /\ UNCHANGED <<files, arch, fileEntries, damage>>

GetFileRaw(name) ==
    /\ Running
    /\ reader.alive
    /\ \E fill \in FillBytes :
         ExtractReturns("getFileRaw",
                        getFileRaw(reader, arch, name, fill), name)
    /\ ops' = ops + 1
    /\ UNCHANGED <<files, arch, fileEntries, damage>>

(***************************************************************************)
(* The environment                                                         *)
(***************************************************************************)
\* a queued source file is deleted
DeleteSource(path) ==
    /\ status = "running"
    /\ files[path] # NoFile
    /\ files' = [files EXCEPT ![path] = NoFile]
    /\ last' = Call("deleteSource", TRUE, path)
    /\ UNCHANGED <<arch, fileEntries, reader, damage, status, ops>>

\* the records of the container's table, read by a fresh Reader
TableOf(file) == getTable(openArchive(NewReader, file).r)

EntriesOf(table) == {table[i] : i \in 1..Len(table)}

\* one byte inside an entry's payload range is changed
CorruptPayload ==
    /\ status = "running"
    /\ arch # NoFile
    /\ Unobserved
    /\ damage = "none"
    /\ \E entry \in EntriesOf(TableOf(arch)), v \in CorruptBytes :
         \E pos \in entry.dataStart .. entry.dataEnd - 1 :
            /\ pos < Len(arch)
            /\ arch[pos + 1] # v
            /\ arch' = [arch EXCEPT ![pos + 1] = v]
            /\ last' = Call("corruptPayload", TRUE, pos)
    /\ damage' = "payload"
    /\ UNCHANGED <<files, fileEntries, reader, status, ops>>

\* the header is damaged: a signature byte, the version byte, or the table
\* offset (zeroed, or a value no seek accepts)
CorruptHeader ==
    /\ status = "running"
    /\ arch # NoFile
    /\ Unobserved
    /\ damage = "none"
    /\ \/ \E i \in 1..4 : arch' = [arch EXCEPT ![i] = 0]
       \/ arch' = [arch EXCEPT ![5] = DATFILEVERSION + 1]
       \/ arch' = WriteAt(arch, 5, Zeros(8))
       \/ arch' = [arch EXCEPT ![13] = 128]
    /\ damage' = "header"
    /\ last' = Call("corruptHeader", TRUE, <<>>)
    /\ UNCHANGED <<files, fileEntries, reader, status, ops>>

\* The Writer and the filesystem it works on.
Next ==
    \/ \E path \in Paths, name \in Names, cMethod \in {NONE, ZLIB},
          crc \in InitCrcs : QueueFile(path, name, cMethod, crc)
    \/ \E path \in Paths : RemoveFile(path)
    \/ Clear
    \/ \E overwrite \in BOOLEAN : WriteArchive(overwrite)
    \/ AppendArchive
    \/ \E path \in Paths : DeleteSource(path)

Spec == Init /\ [][Next]_vars

\* every queue a Writer can hold when it writes: a TableEntry as constructed
\* by the caller for each path of a set
Queues ==
    UNION {[S -> {NewEntry(name, cMethod, 0) :
                     name \in Names, cMethod \in {NONE, ZLIB}}] :
             S \in SUBSET Paths}

\* the containers writeArchive produces from them (a source may be missing
\* when the write runs)
WrittenArchives ==
    {writeArchive(fs, queue).file :
        fs \in [Paths -> Contents \cup {NoFile}], queue \in Queues}

\* A Reader over a container that a Writer has written; the Writer is gone.
InitR ==
    /\ files = [p \in Paths |-> NoFile]
    /\ arch \in WrittenArchives
    /\ fileEntries = <<>>
    /\ reader = NoReader
    /\ damage = "none"
    /\ status = "running"
    /\ last = Call("none", FALSE, <<>>)
    /\ ops = 0

NextR ==
    \/ Construct
    \/ OpenArchive
    \/ CloseArchive
    \/ Destroy
    \/ \E name \in Names : GetFile(name)
    \/ \E name \in Names : GetFileRaw(name)
    \/ CorruptPayload
    \/ CorruptHeader

ReaderSpec == InitR /\ [][NextR]_vars

(***************************************************************************)
(* Reading a container back                                                *)
(***************************************************************************)
\* a Reader constructed on the file
Opened(file) == openArchive(NewReader, file)

Returned(v) == [kind |-> "ret", value |-> v]

\* what getFile(name) of a Reader constructed on the file can do
Retrieve(file, name) ==
    {[kind |-> g.kind, value |-> g.value] :
        g \in {getFile(Opened(file).r, file, name, nullData, fill) :
                 nullData \in BOOLEAN, fill \in FillBytes}}

\* what getFileRaw(name, buffer) of such a Reader can do
RetrieveRaw(file, name) ==
    {[kind |-> g.kind, value |-> g.value] :
        g \in {getFileRaw(Opened(file).r, file, name, fill) :
                 fill \in FillBytes}}

\* the paths queued, and those that no lower path shares its name with
Queued == DOMAIN fileEntries

DistinctNames(queue) ==
    \A p, q \in DOMAIN queue : p # q => queue[p].name # queue[q].name

NamesOf(queue) == {queue[p].name : p \in DOMAIN queue}

\* the step just taken was this call
JustCalled(op) == last.op = op

\* the lowest queued path carrying the name: the one whose record a Reader
\* keeps
FirstPath(queue, name) ==
    CHOOSE p \in DOMAIN queue :
        /\ queue[p].name = name
        /\ \A q \in DOMAIN queue : queue[q].name = name => p <= q

\* the payload bytes a write stored for the queued files it could open
RECURSIVE StoredBytes(_, _, _)
StoredBytes(fs, queue, p) ==
    IF p > NPaths THEN 0
    ELSE (IF p \in DOMAIN queue /\ fs[p] # NoFile
          THEN queue[p].dataEnd - queue[p].dataStart ELSE 0)
             + StoredBytes(fs, queue, p + 1)

(***************************************************************************)
(* Properties of the Writer                                                *)
(***************************************************************************)
\* C10: queueFile(path, entry) returns false and leaves the queue as it was
\* when path is already queued or does not exist; otherwise it returns true
\* and the queue holds the previous pairings plus (path -> entry).
C10_QueueFile ==
    [][(last'.op = "queueFile" /\ ops' = ops + 1) =>
         LET path  == last'.arg[1]
             entry == last'.arg[2]
         IN  IF path \in DOMAIN fileEntries \/ files[path] = NoFile
             THEN last'.ret = FALSE /\ fileEntries' = fileEntries
             ELSE /\ last'.ret = TRUE
                  /\ DOMAIN fileEntries' = DOMAIN fileEntries \cup {path}
                  /\ fileEntries'[path] = entry
                  /\ \A p \in DOMAIN fileEntries :
                        fileEntries'[p] = fileEntries[p]]_vars

\* a queueFile was refused because the path does not exist, with another
\* path queued
C10_Witness ==
    /\ JustCalled("queueFile")
    /\ last.ret = FALSE
    /\ files[last.arg[1]] = NoFile
    /\ last.arg[1] \notin Queued
    /\ Queued # {}

C9_AsStated ==
    [][(/\ ops' = ops + 1
        /\ \/ last'.op = "writeArchive" /\ (arch = NoFile \/ last'.arg)
           \/ last'.op = "appendArchive" /\ arch # NoFile /\ Opened(arch).ret
        /\ DistinctNames(fileEntries')
        /\ \E p \in DOMAIN fileEntries' : files[p] = NoFile)
       => /\ last'.ret
          /\ Opened(arch').r.tableOffset
               = (IF last'.op = "writeArchive" THEN HeaderSize
                  ELSE Opened(arch).r.tableOffset)
                 + StoredBytes(files, fileEntries', 1)
          /\ \A q \in DOMAIN fileEntries' :
                files[q] # NoFile =>
                   Retrieve(arch', fileEntries'[q].name)
                      = {Returned(files[q])}]_vars

\* C1 as stated: files queued under pairwise distinct names, written by
\* writeArchive, come back from getFile of a Reader on the result with the
\* bytes of their source.
C1_AsStated ==
    (/\ JustCalled("writeArchive")
     /\ last.ret
     /\ DistinctNames(fileEntries)
     /\ \A p \in Queued : files[p] # NoFile)
    => \A p \in Queued :
          Retrieve(arch, fileEntries[p].name) = {Returned(files[p])}

\* the records of the on-disk table, in file order
Records(file) ==
    IF Opened(file).ret THEN ParseTable(file, Opened(file).r.tableOffset)
    ELSE <<>>

CountName(recs, name) ==
    Cardinality({i \in 1..Len(recs) : recs[i].name = name})

\* the step is an appendArchive on an existing destination
AppendStep == last'.op = "appendArchive" /\ ops' = ops + 1 /\ arch # NoFile

\* C2 as stated: appendArchive on a valid archive of M entries with N queued
\* files of other names leaves M+N entries retrievable, and each of the M old
\* entries keeps its content and its stored crc32.
C2_AsStated ==
    [][(/\ AppendStep
        /\ Opened(arch).ret
        /\ DistinctNames(fileEntries)
        /\ NamesOf(fileEntries) \cap DOMAIN Opened(arch).r.entries = {}
        /\ \A p \in DOMAIN fileEntries : files[p] # NoFile)
       => LET old == Opened(arch).r
              new == Opened(arch').r
          IN  /\ last'.ret
              /\ size(new) = size(old) + Cardinality(DOMAIN fileEntries)
              /\ \A p \in DOMAIN fileEntries :
                    Retrieve(arch', fileEntries[p].name) = {Returned(files[p])}
              /\ \A n \in DOMAIN old.entries :
                    /\ contains(new, n)
                    /\ Retrieve(arch', n) = Retrieve(arch, n)
                    /\ new.entries[n].crc32 = old.entries[n].crc32]_vars

\* C3 as stated: a queued entry whose name is already in the destination is
\* dropped from the append (no payload, no record), the existing entry's
\* content from getFile is unchanged, the number of records of that name does
\* not grow, and the other queued files are still appended.
C3_AsStated ==
    [][(/\ AppendStep
        /\ last'.ret
        /\ \E p \in DOMAIN fileEntries :
              fileEntries[p].name \in DOMAIN Opened(arch).r.entries)
       => LET old  == Opened(arch).r
              new  == Opened(arch').r
              coll == {p \in DOMAIN fileEntries :
                          fileEntries[p].name \in DOMAIN old.entries}
          IN  /\ \A p \in coll :
                    /\ p \notin DOMAIN fileEntries'
                    /\ CountName(Records(arch'), fileEntries[p].name)
                          <= CountName(Records(arch), fileEntries[p].name)
                    /\ Retrieve(arch', fileEntries[p].name)
                          = Retrieve(arch, fileEntries[p].name)
              /\ new.tableOffset
                    = old.tableOffset + StoredBytes(files, fileEntries', 1)
              /\ \A q \in DOMAIN fileEntries \ coll :
                    /\ q \in DOMAIN fileEntries'
                    /\ contains(new, fileEntries[q].name)]_vars

(***************************************************************************)
(* Properties of the Reader                                                *)
(***************************************************************************)
\* the header of the file passes validateArchive
HeaderValid(file) ==
    validateArchive(ReadField(file, 0, 4), ReadField(file, 4, 1)[1])

\* loadTable fails on the file: table offset 0, or the seek fails
TableLoadFails(file) == ~loadTable(NewReader, file, ReadField(file, 5, 8)).ret

\* the step just taken was an openArchive that got the file open
JustOpened ==
    /\ JustCalled("construct") \/ JustCalled("openArchive")
    /\ reader.openFlag

\* getFile(name) returned on the file, whatever it returned
Readable(file, name) == \A g \in Retrieve(file, name) : g.kind = "ret"

\* C4 as stated: after one byte in an entry's payload range is changed,
\* getFile for that entry returns empty and getFileRaw returns 0, and getFile
\* for every other entry returns what it returned before. Taken over the
\* entries that getFile returned for before the change.
C4_AsStated ==
    [][(last'.op = "corruptPayload" /\ damage = "none" /\ damage' = "payload")
       => LET pos == last'.arg
              t   == TableOf(arch)
          IN  \A i \in 1..Len(t) :
                 Readable(arch, t[i].name) =>
                    IF t[i].dataStart <= pos /\ pos < t[i].dataEnd
                    THEN /\ Retrieve(arch', t[i].name) = {Returned(<<>>)}
                         /\ RetrieveRaw(arch', t[i].name) = {Returned(0)}
                    ELSE Retrieve(arch', t[i].name)
                            = Retrieve(arch, t[i].name)]_vars

\* C5 as stated: closeArchive on an open Reader returns true and leaves
\* isOpen() false; on a Reader that is not open it returns false.
C5_AsStated ==
    JustCalled("closeArchive") =>
        IF last.arg THEN last.ret /\ ~isOpen(reader) /\ ~reader.strmOpen
        ELSE ~last.ret

\* C6 as stated: with a valid header and a failing table load, openArchive
\* returns false and leaves an empty index and isBad(), so that every query
\* finds nothing.
C6_AsStated ==
    (JustOpened /\ HeaderValid(arch) /\ TableLoadFails(arch)) =>
        /\ ~last.ret
        /\ isBad(reader)
        /\ size(reader) = 0
        /\ \A name \in Names :
              /\ ~contains(reader, name)
              /\ \A nullData \in BOOLEAN, fill \in FillBytes :
                    LET g == getFile(reader, arch, name, nullData, fill)
                    IN  g.kind = "ret" /\ g.value = <<>>

\* C7 as stated: openArchive on a file whose signature or version does not
\* match returns failure, leaves isOpen() false or isBad() true, and every
\* query returns empty or zero.
C7_AsStated ==
    (JustOpened /\ ~HeaderValid(arch)) =>
        /\ ~last.ret
        /\ ~isOpen(reader) \/ isBad(reader)
        /\ size(reader) = 0
        /\ listFiles(reader) = <<>>
        /\ getTable(reader) = <<>>
        /\ \A name \in Names :
              /\ ~contains(reader, name)
              /\ \A nullData \in BOOLEAN, fill \in FillBytes :
                    LET g == getFile(reader, arch, name, nullData, fill)
                        w == getFileRaw(reader, arch, name, fill)
                    IN  /\ g.kind = "ret" /\ g.value = <<>>
                        /\ w.kind = "ret" /\ w.value = 0

(***************************************************************************)
(* Properties of the container                                             *)
(***************************************************************************)
\* some byte position lies in the [dataStart, dataEnd) ranges of both records
Overlap(a, b) ==
    \E x \in a.dataStart .. a.dataEnd - 1 : b.dataStart <= x /\ x < b.dataEnd

\* C11 as stated: in every container the Writer produced, every table record
\* has dataStart <= dataEnd, the ranges of distinct records do not overlap,
\* and every range lies between the end of the header and the table offset
\* stored in the header.
C11_AsStated ==
    arch # NoFile =>
        LET recs == Records(arch)
            D    == 1..Len(recs)
        IN  /\ \A i \in D :
                  /\ recs[i].dataStart <= recs[i].dataEnd
                  /\ HeaderSize <= recs[i].dataStart
                  /\ recs[i].dataEnd <= Opened(arch).r.tableOffset
            /\ \A i, j \in D : i # j => ~Overlap(recs[i], recs[j])

\* C12 as stated: in every container the Writer produced, no two records of
\* the on-disk table carry the same name.
C12_AsStated ==
    arch # NoFile =>
        \A name \in Names : CountName(Records(arch), name) <= 1

\* C13 as stated: after appendArchive the on-disk table is the old table's
\* records, unchanged and in the order they stood in, followed by the records
\* of the queued entries in queue order; and the header's table offset points
\* at this table, immediately after the last appended payload.
C13_AsStated ==
    [][(AppendStep /\ last'.ret)
       => /\ Records(arch')
                = Records(arch) \o QueueVec(fileEntries', 1)
          /\ Opened(arch').r.tableOffset
                = Opened(arch).r.tableOffset
                     + StoredBytes(files, fileEntries', 1)]_vars

\* the step just taken was a writeArchive or appendArchive that wrote
JustWrote ==
    /\ JustCalled("writeArchive") \/ JustCalled("appendArchive")
    /\ last.ret

\* C14 as stated: for every entry whose payload a writeArchive or
\* appendArchive wrote, the crc32 of its table record is the CRC-32, from the
\* initial seed, of the bytes in [dataStart, dataEnd), whatever crc32 the
\* queued entry held before the write.
C14_AsStated ==
    JustWrote =>
        \A p \in Queued :
           files[p] # NoFile =>
              /\ \E i \in 1..Len(Records(arch)) :
                    Records(arch)[i] = fileEntries[p]
              /\ fileEntries[p].crc32
                    = Crc32(0, ReadAt(arch, fileEntries[p].dataStart,
                                      sizeInArchive(fileEntries[p])))

(***************************************************************************)
(* Properties of the Reader's index                                        *)
(***************************************************************************)
\* C15 as stated: after an openArchive (the constructor's included) the index
\* seen through size(), contains(), listFiles() and getTable() is that of the
\* archive just opened when the call returned true, i.e. what a new Reader on
\* that archive holds, and is empty when the call returned false.
C15_AsStated ==
    (JustCalled("construct") \/ JustCalled("openArchive")) =>
        IF last.ret
        THEN /\ size(reader) = size(Opened(arch).r)
             /\ listFiles(reader) = listFiles(Opened(arch).r)
             /\ getTable(reader) = getTable(Opened(arch).r)
             /\ \A name \in Names :
                   contains(reader, name) = contains(Opened(arch).r, name)
        ELSE /\ size(reader) = 0
             /\ listFiles(reader) = <<>>
             /\ getTable(reader) = <<>>
             /\ \A name \in Names : ~contains(reader, name)

(***************************************************************************)
(* Termination of extraction                                               *)
(***************************************************************************)
\* C16 as stated: getFile / getFileRaw of a table entry returns after
\* finitely many chunk reads, also when the bytes in [dataStart, dataEnd) run
\* out before the decompressor reports the end of the stream.
C16_AsStated ==
    (JustCalled("getFile") \/ JustCalled("getFileRaw")) => status # "hung"

====
